---- MODULE Spec2Model ----
(***************************************************************************)
(* smmake: the dependency-graph execution engine of cmd/main.go.           *)
(*                                                                         *)
(* The state is the Makefile object (Targets, mutex, executed,             *)
(* processing), the files os.Stat can see, and one record per invocation  *)
(* of Makefile.ExecuteTarget holding its locals and its position in the    *)
(* function.  Every dependency goroutine is an invocation whose parent is  *)
(* the invocation that launched it.                                        *)
(***************************************************************************)
EXTENDS Integers, Sequences, FiniteSets, TLC

VARIABLES
    Targets,      \* Makefile.Targets: name -> Target, fixed after parsing
    files,        \* the names for which os.Stat succeeds
    roots,        \* the names the caller of the engine may request
    mutex,        \* Makefile.mutex: 0 when free, else the holding invocation
    processing,   \* Makefile.processing
    executed,     \* Makefile.executed
    inv,          \* the invocations of ExecuteTarget, in order of creation
    topCalls,     \* number of calls made by the caller of the engine so far
    ran,          \* per requested name: the commands handed to exec, in order
    echoed,       \* per requested name: the commands printed by "Executing:"
    failed,       \* the <<name, rule, index>> of the commands that failed
    lines,        \* ParseMakefile: the lines the scanner has returned so far
    pstate,       \* ParseMakefile: "parsing", "parsed", or "panic"
    currentTarget,\* ParseMakefile: the target the pointer currentTarget is at
    Variables     \* Makefile.Variables

\* the state of ParseMakefile besides the Targets map it fills
parser == <<lines, pstate, currentTarget, Variables>>

vars == <<Targets, files, roots, mutex, processing, executed, inv, topCalls,
          ran, echoed, failed, parser>>

-----------------------------------------------------------------------------
(* Bounds *)

\* calls the caller of the engine makes one after the other in one run
MaxTopCalls == 2

\* lines of the Makefile the parser is given
MaxLines == 3

-----------------------------------------------------------------------------
(* Target model: type Target, type Command *)

Command(cmd, silent) == [Cmd |-> cmd, Silent |-> silent]

Target(name, deps, cmds) ==
    [Name |-> name, Commands |-> cmds, Dependencies |-> deps,
     Pattern |-> FALSE, PatternFrom |-> "", PatternTo |-> ""]

PatternTarget(from, to, deps, cmds) ==
    [Name |-> from \o "%" \o to, Commands |-> cmds, Dependencies |-> deps,
     Pattern |-> TRUE, PatternFrom |-> from, PatternTo |-> to]

\* the map built by ParseMakefile: makefile.Targets[targetName] = currentTarget
MakeTargets(S) == [n \in {t.Name : t \in S} |-> CHOOSE t \in S : t.Name = n]

\* the elements of a list
SeqToSet(q) == {q[k] : k \in 1..Len(q)}

\* the value of m.Targets[targetName] when the key is absent
NoTarget == "<nil>"

\* var currentTarget *Target before the first target line
NilPointer == [nil |-> TRUE, obj |-> Target("", <<>>, <<>>), keys |-> {}]

\* a pointer to a Target, with the keys of m.Targets that hold the same pointer
Pointer(obj, keys) == [nil |-> FALSE, obj |-> obj, keys |-> keys]

-----------------------------------------------------------------------------
(* Errors: fmt.Errorf values, kept as kind, subject and the chain of        *)
(* "error in dependency '%s'" wrappers, outermost first.                    *)

NoErr == [kind |-> "nil", subject |-> "", via |-> <<>>]

CircularErr(name) == [kind |-> "circular", subject |-> name, via |-> <<>>]

NotFoundErr(name) == [kind |-> "notfound", subject |-> name, via |-> <<>>]

CommandErr(cmd) == [kind |-> "command", subject |-> cmd, via |-> <<>>]

DependencyErr(dep, err) == [err EXCEPT !.via = <<dep>> \o @]

-----------------------------------------------------------------------------
(* Pattern matcher *)

\* one regexp atom against one character: "." matches any character
CharMatch(p, c) == p = "." \/ p = c

\* the concatenation of the atoms of pat matches s at position i
MatchAt(pat, s, i) ==
    /\ i + Len(pat) - 1 <= Len(s)
    /\ \A k \in 1..Len(pat) :
          CharMatch(SubSeq(pat, k, k), SubSeq(s, i + k - 1, i + k - 1))

\* regexp.MatchString(from + "(.*)" + to, s): unanchored
PatternMatches(from, to, s) ==
    \E i \in 1..(Len(s) + 1) :
        /\ MatchAt(from, s, i)
        /\ \E j \in (i + Len(from))..(Len(s) + 1) : MatchAt(to, s, j)

\* the pattern targets the range over m.Targets may return for a name
findMatchingPatternRule(name) ==
    {k \in DOMAIN Targets :
        /\ Targets[k].Pattern
        /\ PatternMatches(Targets[k].PatternFrom, Targets[k].PatternTo, name)}

-----------------------------------------------------------------------------
(* Command runner *)

\* len(strings.Fields(cmd)) == 0
NoFields(cmd) == \A k \in 1..Len(cmd) : SubSeq(cmd, k, k) = " "

\* fmt.Printf("Executing: %s\n", cmd.Cmd): printed for every command
Echoes(cmd) == TRUE

-----------------------------------------------------------------------------
(* The parsed graphs the engine is run on.  Each gives the Targets map, the *)
(* names that may exist as files, and the names the caller may request.     *)

Scenario(ts, fs, rs) == [targets |-> MakeTargets(ts), files |-> fs, roots |-> rs]

\* A: B C / B: D / C: D / D:
Diamond ==
    Scenario({Target("A", <<"B", "C">>, <<Command("a", FALSE)>>),
              Target("B", <<"D">>, <<Command("b", FALSE)>>),
              Target("C", <<"D">>, <<Command("c", TRUE)>>),
              Target("D", <<>>, <<Command("d", FALSE)>>)},
             {}, {"A", "D"})

\* A: B / B: A
Cycle ==
    Scenario({Target("A", <<"B">>, <<Command("a", FALSE)>>),
              Target("B", <<"A">>, <<Command("b", FALSE)>>)},
             {}, {"A", "B"})

\* A: B / B: C / C: A
Cycle3 ==
    Scenario({Target("A", <<"B">>, <<Command("a", FALSE)>>),
              Target("B", <<"C">>, <<>>),
              Target("C", <<"A">>, <<Command("c", FALSE)>>)},
             {}, {"A", "C"})

\* A: B B / B:    (the same dependency listed twice)
Twice ==
    Scenario({Target("A", <<"B", "B">>, <<Command("a", FALSE)>>),
              Target("B", <<>>, <<Command("b", TRUE)>>)},
             {}, {"A"})

\* A: A
SelfLoop ==
    Scenario({Target("A", <<"A">>, <<Command("a", FALSE)>>)}, {}, {"A"})

\* A: B C / B: A D / C: D / D:   (a cycle through A and a shared D)
CycleSide ==
    Scenario({Target("A", <<"B", "C">>, <<Command("a", FALSE)>>),
              Target("B", <<"A", "D">>, <<Command("b", FALSE)>>),
              Target("C", <<"D">>, <<>>),
              Target("D", <<>>, <<Command("d", TRUE)>>)},
             {}, {"A"})

\* T: L with three commands, the second silent / L: with a blank command
Ordered ==
    Scenario({Target("T", <<"L">>, <<Command("c1", FALSE), Command("c2", TRUE),
                                     Command("c3", FALSE)>>),
              Target("L", <<>>, <<Command("", FALSE), Command("l", FALSE)>>)},
             {}, {"T", "L"})

\* A: B C / B: f / C: f   where f has no rule and may exist as a file
FileLeaf ==
    Scenario({Target("A", <<"B", "C">>, <<Command("a", FALSE)>>),
              Target("B", <<"f">>, <<Command("b", FALSE)>>),
              Target("C", <<"f">>, <<>>)},
             {"f"}, {"A", "f"})

\* all: x.o yo / %.o: s / s:    (x.o and yo have no explicit rule)
Patterns ==
    Scenario({Target("all", <<"x.o", "yo">>, <<Command("ld", FALSE)>>),
              PatternTarget("", ".o", <<"s">>, <<Command("cc", TRUE)>>),
              Target("s", <<>>, <<Command("gen", FALSE)>>)},
             {"yo"}, {"all", "x.o"})

\* all: x.o a.o / %.o: / x%: / a.o:   (x.o has no explicit rule and matches
\* both pattern rules; a.o has an explicit rule and matches %.o)
TwoPatterns ==
    Scenario({Target("all", <<"x.o", "a.o">>, <<>>),
              PatternTarget("", ".o", <<>>, <<Command("cc", FALSE)>>),
              PatternTarget("x", "", <<>>, <<Command("xx", FALSE)>>),
              Target("a.o", <<>>, <<Command("as", FALSE)>>)},
             {}, {"all"})

\* the names of the generated graphs, in the order dependencies are listed
PairNames == <<"P", "Q">>

TripleNames == <<"P", "Q", "R">>

\* the names of S in the order of the list names
Listed(names, S) == LET In(x) == x \in S IN SelectSeq(names, In)

\* the graphs over a list of names in which each name has a rule with one
\* command and, as its dependencies, the names that d gives it
Generated(names, D) ==
    {Scenario({Target(names[k], Listed(names, d[k]),
                      <<Command("run", FALSE)>>) : k \in 1..Len(names)},
              {}, {names[1]}) : d \in D}

\* every graph over two names, self-dependencies included
PairGraphs ==
    Generated(PairNames,
              [1..Len(PairNames) -> SUBSET SeqToSet(PairNames)])

\* every graph over three names in which no name lists itself
TripleGraphs ==
    Generated(TripleNames,
              {d \in [1..Len(TripleNames) -> SUBSET SeqToSet(TripleNames)] :
                  \A k \in 1..Len(TripleNames) : TripleNames[k] \notin d[k]})

Graphs ==
    {Diamond, Cycle, Cycle3, Twice, SelfLoop, CycleSide, Ordered, FileLeaf,
     Patterns, TwoPatterns}
        \cup PairGraphs \cup TripleGraphs

\* every name of a scenario: rule names, dependency names, requested names
NamesOf(g) ==
    DOMAIN g.targets
      \cup UNION {{g.targets[k].Dependencies[i] :
                      i \in 1..Len(g.targets[k].Dependencies)} : k \in DOMAIN g.targets}
      \cup g.files \cup g.roots

Names == DOMAIN processing

-----------------------------------------------------------------------------
(* NewMakefile, and the state before the first call to ExecuteTarget *)

Init ==
    \E g \in Graphs :
        /\ Targets = g.targets
        /\ files \in SUBSET g.files
        /\ roots = g.roots
        /\ mutex = 0
        /\ processing = [n \in NamesOf(g) |-> FALSE]
        /\ executed = [n \in NamesOf(g) |-> FALSE]
        /\ inv = <<>>
        /\ topCalls = 0
        /\ ran = [n \in NamesOf(g) |-> <<>>]
        /\ echoed = [n \in NamesOf(g) |-> <<>>]
        /\ failed = {}
        /\ lines = <<>>
        /\ pstate = "parsed"
        /\ currentTarget = NilPointer
        /\ Variables = <<>>

\* a fresh invocation of ExecuteTarget(name), about to take m.mutex.Lock()
NewInvocation(name, parent) ==
    [name |-> name, parent |-> parent, pc |-> "lock", target |-> NoTarget,
     i |-> 0, wg |-> 0, errChan |-> <<>>, err |-> NoErr,
     sawProcessing |-> FALSE, sawExecuted |-> FALSE, admitted |-> FALSE,
     nran |-> 0]

Ids == 1..Len(inv)

\* the invocation has left ExecuteTarget
Returned(id) == inv[id].pc \in {"returned", "exited"}

-----------------------------------------------------------------------------
(* Makefile.ExecuteTarget, one action per step of the function *)

\* the caller of the engine (main, or a test) calls ExecuteTarget(name);
\* the calls of one run are made one after the other
TopCall(name) ==
    /\ topCalls < MaxTopCalls
    /\ \A id \in Ids : inv[id].parent = 0 => Returned(id)
    /\ inv' = Append(inv, NewInvocation(name, 0))
    /\ topCalls' = topCalls + 1
    /\ UNCHANGED <<parser, Targets, files, roots, mutex, processing, executed,
                   ran, echoed, failed>>

\* where the invocation goes once it holds the mutex
AfterLock(pc) ==
    CASE pc = "lock" -> "admit"
      [] pc = "lockfile" -> "markfile"
      [] pc = "lockdone" -> "markdone"

\* m.mutex.Lock() at the top of the function, in the file branch and at the end
Lock(id) ==
    /\ inv[id].pc \in {"lock", "lockfile", "lockdone"}
    /\ mutex = 0
    /\ mutex' = id
    /\ inv' = [inv EXCEPT ![id].pc = AfterLock(@)]
    /\ UNCHANGED <<parser, Targets, files, roots, processing, executed, topCalls,
                   ran, echoed, failed>>

\* an unlock that leaves the mutex with the invocation that held it
UnlockMissing(id) == id

\* m.mutex.Unlock(): the mutex is free again
Unlock(id) == 0

\* an admission check that takes an in-progress name for a finished one
AdmissionCheckNoCycle(isProcessing, isExecuted) ==
    IF isProcessing \/ isExecuted THEN "done" ELSE "admit"

\* an admission check that never looks at the done flag
AdmissionCheckNoMemo(isProcessing, isExecuted) ==
    IF isProcessing THEN "circular" ELSE "admit"

\* the admission check made under the mutex: the in-progress flag is
\* looked at first, then the done flag
AdmissionCheck(isProcessing, isExecuted) ==
    IF isProcessing THEN "circular"
    ELSE IF isExecuted THEN "done"
    ELSE "admit"

\* the critical section at the top of the function, up to m.mutex.Unlock()
Admit(id) ==
    LET name == inv[id].name
        seen == [inv EXCEPT ![id].sawProcessing = processing[name],
                            ![id].sawExecuted = executed[name]]
        verdict == AdmissionCheck(processing[name], executed[name])
    IN  /\ inv[id].pc = "admit"
        /\ mutex = id
        /\ mutex' = Unlock(id)
        /\ IF verdict = "circular"
           THEN /\ inv' = [seen EXCEPT ![id].pc = "returned",
                                       ![id].err = CircularErr(name)]
                /\ UNCHANGED processing
           ELSE IF verdict = "done"
           THEN /\ inv' = [seen EXCEPT ![id].pc = "returned", ![id].err = NoErr]
                /\ UNCHANGED processing
           ELSE /\ inv' = [seen EXCEPT ![id].pc = "resolve", ![id].admitted = TRUE]
                /\ processing' = [processing EXCEPT ![name] = TRUE]
        /\ UNCHANGED <<parser, Targets, files, roots, executed, topCalls,
                       ran, echoed, failed>>

\* a resolution that looks for the file before the pattern rules
ResolutionFileFirst(name) ==
    IF name \in DOMAIN Targets THEN "explicit"
    ELSE IF name \in files THEN "file"
    ELSE IF findMatchingPatternRule(name) # {} THEN "pattern"
    ELSE "none"

\* the order in which a name is resolved: the explicit target, then the
\* pattern rules, then os.Stat
Resolution(name) ==
    IF name \in DOMAIN Targets THEN "explicit"
    ELSE IF findMatchingPatternRule(name) # {} THEN "pattern"
    ELSE IF name \in files THEN "file"
    ELSE "none"

\* target := m.Targets[targetName], then the pattern rules, then os.Stat
Resolve(id) ==
    LET name == inv[id].name
        how  == Resolution(name)
    IN
    /\ inv[id].pc = "resolve"
    /\ IF how = "explicit"
       THEN inv' = [inv EXCEPT ![id].pc = "spawn", ![id].target = name]
       ELSE IF how = "pattern"
       THEN \E k \in findMatchingPatternRule(name) :
                inv' = [inv EXCEPT ![id].pc = "spawn", ![id].target = k]
       ELSE IF how = "file"
       THEN inv' = [inv EXCEPT ![id].pc = "lockfile"]
       ELSE inv' = [inv EXCEPT ![id].pc = "returned",
                               ![id].err = NotFoundErr(name)]
    /\ UNCHANGED <<parser, Targets, files, roots, mutex, processing, executed,
                   topCalls, ran, echoed, failed>>

\* the file branch: processing[name] = false, executed[name] = true, return nil
MarkFile(id) ==
    LET name == inv[id].name IN
    /\ inv[id].pc = "markfile"
    /\ mutex = id
    /\ mutex' = Unlock(id)
    /\ processing' = [processing EXCEPT ![name] = FALSE]
    /\ executed' = [executed EXCEPT ![name] = TRUE]
    /\ inv' = [inv EXCEPT ![id].pc = "returned", ![id].err = NoErr]
    /\ UNCHANGED <<parser, Targets, files, roots, topCalls, ran, echoed, failed>>

\* errChan := make(chan error, len(target.Dependencies)); one goroutine per
\* dependency, each counted by wg.Add(1) before it is started.  The loop only
\* creates goroutines, so it is taken as one step.
Spawn(id) ==
    LET deps == Targets[inv[id].target].Dependencies IN
    /\ inv[id].pc = "spawn"
    /\ inv' = [inv EXCEPT ![id].pc = "wait", ![id].wg = Len(deps),
                          ![id].errChan = <<>>]
               \o [k \in 1..Len(deps) |-> NewInvocation(deps[k], id)]
    /\ UNCHANGED <<parser, Targets, files, roots, mutex, processing, executed,
                   topCalls, ran, echoed, failed>>

\* an unbuffered error channel
ErrChanCapUnbuffered(id) == 0

\* the capacity of the parent's errChan
ErrChanCap(id) == Len(Targets[inv[id].target].Dependencies)

\* the rest of a dependency goroutine once its ExecuteTarget has returned:
\* errChan <- "error in dependency ..." when it failed, then wg.Done()
GoExit(id) ==
    LET p == inv[id].parent IN
    /\ inv[id].pc = "returned"
    /\ p # 0
    /\ IF inv[id].err # NoErr
       THEN /\ Len(inv[p].errChan) < ErrChanCap(p)
            /\ inv' = [inv EXCEPT
                         ![id].pc = "exited",
                         ![p].wg = @ - 1,
                         ![p].errChan = Append(@, DependencyErr(inv[id].name,
                                                                inv[id].err))]
       ELSE inv' = [inv EXCEPT ![id].pc = "exited", ![p].wg = @ - 1]
    /\ UNCHANGED <<parser, Targets, files, roots, mutex, processing, executed,
                   topCalls, ran, echoed, failed>>

\* a wait that returns while one dependency goroutine is still running
WaitReturnsEarly(wg) == wg <= 1

\* wg.Wait() returns when the counter is zero
WaitReturns(wg) == wg = 0

\* a collection of the dependency errors that drops them
FirstErrorDropped(errChan) == NoErr

\* for err := range errChan { return err }: the first error sent, if any
FirstError(errChan) == IF errChan = <<>> THEN NoErr ELSE Head(errChan)

\* the position after the command loop has moved to index i of the rule
LoopAt(rule, i) ==
    IF i > Len(Targets[rule].Commands) THEN "lockdone" ELSE "cmd"

\* wg.Wait(); close(errChan); return the first error or go on to the commands
Wait(id) ==
    /\ inv[id].pc = "wait"
    /\ WaitReturns(inv[id].wg)
    /\ IF FirstError(inv[id].errChan) # NoErr
       THEN inv' = [inv EXCEPT ![id].pc = "returned",
                               ![id].err = FirstError(inv[id].errChan)]
       ELSE inv' = [inv EXCEPT ![id].pc = LoopAt(inv[id].target, 1), ![id].i = 1]
    /\ UNCHANGED <<parser, Targets, files, roots, mutex, processing, executed,
                   topCalls, ran, echoed, failed>>

\* one turn of the command loop up to command.Run(): print the command,
\* skip it when it has no fields, else hand it to exec
StartCmd(id) ==
    LET name == inv[id].name
        rule == inv[id].target
        i    == inv[id].i
        cmd  == Targets[rule].Commands[i]
    IN  /\ inv[id].pc = "cmd"
        /\ echoed' = IF Echoes(cmd)
                     THEN [echoed EXCEPT ![name] = Append(@, <<rule, i>>)]
                     ELSE echoed
        /\ IF NoFields(cmd.Cmd)
           THEN /\ inv' = [inv EXCEPT ![id].pc = LoopAt(rule, i + 1),
                                      ![id].i = i + 1]
                /\ UNCHANGED ran
           ELSE /\ inv' = [inv EXCEPT ![id].pc = "running", ![id].nran = @ + 1]
                /\ ran' = [ran EXCEPT ![name] = Append(@, <<rule, i>>)]
        /\ UNCHANGED <<parser, Targets, files, roots, mutex, processing, executed,
                       topCalls, failed>>

\* a command loop that goes on after a failed command
RunFailedIgnored(ok) == FALSE

\* if err := command.Run(); err != nil
RunFailed(ok) == ~ok

\* command.Run() returns: on an error the function returns it, else the loop
\* goes on to the next command
FinishCmd(id, ok) ==
    LET name == inv[id].name
        rule == inv[id].target
        i    == inv[id].i
        cmd  == Targets[rule].Commands[i]
    IN  /\ inv[id].pc = "running"
        /\ failed' = IF ok THEN failed ELSE failed \cup {<<name, rule, i>>}
        /\ IF RunFailed(ok)
           THEN inv' = [inv EXCEPT ![id].pc = "returned",
                                   ![id].err = CommandErr(cmd.Cmd)]
           ELSE inv' = [inv EXCEPT ![id].pc = LoopAt(rule, i + 1),
                                   ![id].i = i + 1]
        /\ UNCHANGED <<parser, Targets, files, roots, mutex, processing, executed,
                       topCalls, ran, echoed>>

\* the last critical section: processing[name] = false, executed[name] = true
MarkDone(id) ==
    LET name == inv[id].name IN
    /\ inv[id].pc = "markdone"
    /\ mutex = id
    /\ mutex' = Unlock(id)
    /\ processing' = [processing EXCEPT ![name] = FALSE]
    /\ executed' = [executed EXCEPT ![name] = TRUE]
    /\ inv' = [inv EXCEPT ![id].pc = "returned", ![id].err = NoErr]
    /\ UNCHANGED <<parser, Targets, files, roots, topCalls, ran, echoed, failed>>

Next ==
    \/ \E name \in roots : TopCall(name)
    \/ \E id \in Ids : Lock(id)
    \/ \E id \in Ids : Admit(id)
    \/ \E id \in Ids : Resolve(id)
    \/ \E id \in Ids : MarkFile(id)
    \/ \E id \in Ids : Spawn(id)
    \/ \E id \in Ids : GoExit(id)
    \/ \E id \in Ids : Wait(id)
    \/ \E id \in Ids : StartCmd(id)
    \/ \E id \in Ids, ok \in BOOLEAN : FinishCmd(id, ok)
    \/ \E id \in Ids : MarkDone(id)

Spec == Init /\ [][Next]_vars

\* a step of some invocation of ExecuteTarget or of a dependency goroutine
EngineStep ==
    \/ \E id \in Ids : Lock(id)
    \/ \E id \in Ids : Admit(id)
    \/ \E id \in Ids : Resolve(id)
    \/ \E id \in Ids : MarkFile(id)
    \/ \E id \in Ids : Spawn(id)
    \/ \E id \in Ids : GoExit(id)
    \/ \E id \in Ids : Wait(id)
    \/ \E id \in Ids : StartCmd(id)
    \/ \E id \in Ids, ok \in BOOLEAN : FinishCmd(id, ok)
    \/ \E id \in Ids : MarkDone(id)

\* the Go scheduler runs a goroutine that can run, and every spawned command
\* terminates; the caller of the engine is not obliged to call again
FairSpec == Spec /\ WF_vars(EngineStep)

-----------------------------------------------------------------------------
(* Package strings, as far as ParseMakefile uses it *)

Char(s, i) == SubSeq(s, i, i)

Min(S) == CHOOSE i \in S : \A j \in S : i <= j

Max(S) == CHOOSE i \in S : \A j \in S : i >= j

\* the white space that can occur inside a line
IsSpace(c) == c \in {" ", "\t"}

\* strings.TrimSpace
TrimSpace(s) ==
    LET keep == {i \in 1..Len(s) : ~IsSpace(Char(s, i))}
    IN  IF keep = {} THEN "" ELSE SubSeq(s, Min(keep), Max(keep))

\* strings.HasPrefix
HasPrefix(s, p) == Len(p) <= Len(s) /\ SubSeq(s, 1, Len(p)) = p

\* strings.TrimPrefix
TrimPrefix(s, p) == IF HasPrefix(s, p) THEN SubSeq(s, Len(p) + 1, Len(s)) ELSE s

\* strings.Contains for a separator of one character
Contains(s, c) == \E i \in 1..Len(s) : Char(s, i) = c

\* strings.SplitN(s, c, 2) when s contains c: around the first c
SplitN2(s, c) ==
    LET at == Min({i \in 1..Len(s) : Char(s, i) = c})
    IN  <<SubSeq(s, 1, at - 1), SubSeq(s, at + 1, Len(s))>>

\* len(strings.Split(s, c)) - 1
CountOf(s, c) == Cardinality({i \in 1..Len(s) : Char(s, i) = c})

RECURSIVE Fields(_)
\* strings.Fields
Fields(s) ==
    IF \A i \in 1..Len(s) : IsSpace(Char(s, i)) THEN <<>>
    ELSE LET a    == Min({i \in 1..Len(s) : ~IsSpace(Char(s, i))})
             ends == {i \in a..Len(s) : IsSpace(Char(s, i))}
             b    == IF ends = {} THEN Len(s) + 1 ELSE Min(ends)
         IN  <<SubSeq(s, a, b - 1)>> \o Fields(SubSeq(s, b, Len(s)))

RECURSIVE ExpandFrom(_, _, _)
\* the replacement of the leftmost matches of \$[\(\{]([^\)\}]+)[\)\}] in s
\* from position i on
ExpandFrom(V, s, i) ==
    IF i > Len(s) THEN ""
    ELSE LET closers == {j \in (i + 2)..Len(s) : Char(s, j) \in {")", "}"}}
             found   == /\ Char(s, i) = "$"
                        /\ i + 1 <= Len(s)
                        /\ Char(s, i + 1) \in {"(", "{"}
                        /\ closers # {}
                        /\ Min(closers) > i + 2
         IN  IF found
             THEN LET j       == Min(closers)
                      varName == SubSeq(s, i + 2, j - 1)
                  IN  (IF varName \in DOMAIN V THEN V[varName]
                       ELSE SubSeq(s, i, j)) \o ExpandFrom(V, s, j + 1)
             ELSE Char(s, i) \o ExpandFrom(V, s, i + 1)

\* Makefile.expandVariables
expandVariables(V, str) == ExpandFrom(V, str, 1)

-----------------------------------------------------------------------------
(* ParseMakefile *)

\* the lines a Makefile is made of here
FileLines ==
    {"a: b", "\tc", "\t@c", "\tc=d", "V=w", "b: c=d", "# x", "", "\t# c",
     "%.o: s", "x%y%: s", "\t$(V) ${U}", "junk"}

\* m[k] = v on a Go map
Put(m, k, v) == [n \in DOMAIN m \cup {k} |-> IF n = k THEN v ELSE m[n]]

\* the Targets map after the target that the keys K point to has become obj
PutAll(m, K, obj) == [n \in DOMAIN m \cup K |-> IF n \in K THEN obj ELSE m[n]]

\* the line is skipped as blank or as a comment
Skipped(line) ==
    Len(TrimSpace(line)) = 0 \/ HasPrefix(TrimSpace(line), "#")

\* the branch of the loop body a line that is not skipped takes: the test
\* for "=" comes first, then the test for a target line, then the tab
Branch(line) ==
    IF Contains(line, "=") THEN "variable"
    ELSE IF ~HasPrefix(line, "\t") /\ Contains(line, ":") THEN "target"
    ELSE IF HasPrefix(line, "\t") THEN "command"
    ELSE "none"

\* the target a target line makes current: a new Target, a new pattern
\* Target when the name has exactly one %, else the pointer as it was
NewCurrent(targetName) ==
    IF Contains(targetName, "%")
    THEN IF CountOf(targetName, "%") = 1
         THEN Pointer(PatternTarget(SplitN2(targetName, "%")[1],
                                    SplitN2(targetName, "%")[2], <<>>, <<>>), {})
         ELSE currentTarget
    ELSE Pointer(Target(targetName, <<>>, <<>>), {})

\* the Command a command line adds
ParsedCommand(line) ==
    LET command == TrimPrefix(line, "\t")
        silent  == HasPrefix(command, "@")
    IN  Command(expandVariables(Variables, TrimSpace(TrimPrefix(command, "@"))),
                silent)

\* one turn of the scanner loop on the next line of the file
ParseLine(line) ==
    /\ pstate = "parsing"
    /\ Len(lines) < MaxLines
    /\ lines' = Append(lines, line)
    /\ IF Skipped(line) \/ Branch(line) = "none"
       THEN UNCHANGED <<Targets, pstate, currentTarget, Variables>>
       ELSE IF Branch(line) = "variable"
       THEN /\ Variables' = Put(Variables, TrimSpace(SplitN2(line, "=")[1]),
                                TrimSpace(SplitN2(line, "=")[2]))
            /\ UNCHANGED <<Targets, pstate, currentTarget>>
       ELSE IF Branch(line) = "target"
       THEN LET targetName == TrimSpace(SplitN2(line, ":")[1])
                cur        == NewCurrent(targetName)
                obj        == [cur.obj EXCEPT
                                 !.Dependencies = Fields(SplitN2(line, ":")[2])]
                keys       == cur.keys \cup {targetName}
            IN  IF cur.nil
                THEN /\ pstate' = "panic"
                     /\ UNCHANGED <<Targets, currentTarget, Variables>>
                ELSE /\ currentTarget' = Pointer(obj, keys)
                     /\ Targets' = PutAll(Targets, keys, obj)
                     /\ UNCHANGED <<pstate, Variables>>
       ELSE IF currentTarget.nil
       THEN UNCHANGED <<Targets, pstate, currentTarget, Variables>>
       ELSE LET obj == [currentTarget.obj EXCEPT
                          !.Commands = Append(@, ParsedCommand(line))]
            IN  /\ currentTarget' = Pointer(obj, currentTarget.keys)
                /\ Targets' = PutAll(Targets, currentTarget.keys, obj)
                /\ UNCHANGED <<pstate, Variables>>
    /\ UNCHANGED <<files, roots, mutex, processing, executed, inv, topCalls,
                   ran, echoed, failed>>

\* scanner.Scan() returns false: return makefile, nil
ParseEnd ==
    /\ pstate = "parsing"
    /\ pstate' = "parsed"
    /\ UNCHANGED <<Targets, files, roots, mutex, processing, executed, inv,
                   topCalls, ran, echoed, failed, lines, currentTarget,
                   Variables>>

\* NewMakefile, before the first line is read
ParseInit ==
    /\ Targets = <<>>
    /\ Variables = <<>>
    /\ executed = <<>>
    /\ processing = <<>>
    /\ mutex = 0
    /\ files = {}
    /\ roots = {}
    /\ inv = <<>>
    /\ topCalls = 0
    /\ ran = <<>>
    /\ echoed = <<>>
    /\ failed = {}
    /\ lines = <<>>
    /\ pstate = "parsing"
    /\ currentTarget = NilPointer

ParseNext ==
    \/ \E line \in FileLines : ParseLine(line)
    \/ ParseEnd

ParseSpec == ParseInit /\ [][ParseNext]_vars

-----------------------------------------------------------------------------
(* Vocabulary of the properties *)

RECURSIVE Ancestors(_)
\* the names of the invocations on the call path above invocation id
Ancestors(id) ==
    IF inv[id].parent = 0 THEN {}
    ELSE {inv[inv[id].parent].name} \cup Ancestors(inv[id].parent)

Children(id) == {c \in Ids : inv[c].parent = id}

\* the rules a name may resolve to
RulesOf(n) ==
    IF n \in DOMAIN Targets THEN {n} ELSE findMatchingPatternRule(n)

Resolvable(n) == RulesOf(n) # {} \/ n \in files

\* the names a name depends on directly
DepsOf(n) == UNION {SeqToSet(Targets[r].Dependencies) : r \in RulesOf(n)}

RECURSIVE ReachIn(_, _)
\* the names reached from the set S in at most k dependency steps
ReachIn(S, k) ==
    IF k = 0 THEN S ELSE ReachIn(S \cup UNION {DepsOf(n) : n \in S}, k - 1)

\* the transitive dependencies of n
Reach(n) == ReachIn(DepsOf(n), Cardinality(Names))

\* n is its own transitive dependency
OnCycle(n) == n \in Reach(n)

\* the positions of the commands of a rule that have at least one field
Runnable(r) ==
    {i \in 1..Len(Targets[r].Commands) : ~NoFields(Targets[r].Commands[i].Cmd)}

-----------------------------------------------------------------------------
(* C1 - Diamond correctness *)

\* C1: on the graph A -> [B, C], B -> [D], C -> [D] with every command
\* succeeding, no invocation returns a circular-dependency error, and when
\* ExecuteTarget("A") has returned it has returned success with D's command
\* run exactly once.
DiamondCorrect ==
    (Targets = Diamond.targets /\ failed = {}) =>
        /\ \A id \in Ids : inv[id].err.kind # "circular"
        /\ \A id \in Ids :
              (inv[id].parent = 0 /\ inv[id].name = "A" /\ Returned(id)) =>
                  /\ inv[id].err = NoErr
                  /\ ran["D"] = << <<"D", 1>> >>

-----------------------------------------------------------------------------
(* C2 - True cycle detection *)

\* C2: when a target that is its own transitive dependency is executed, with
\* every name it reaches resolvable and no command having failed, no command
\* of a target on its cycle has been run, and once the invocation has
\* returned its error is a circular-dependency error, bare or wrapped as a
\* dependency failure.
TrueCycleDetected ==
    \A id \in Ids :
        LET n == inv[id].name IN
        (/\ OnCycle(n)
         /\ \A d \in Reach(n) : Resolvable(d)
         /\ failed = {}) =>
            /\ \A c \in Reach(n) : n \in Reach(c) => ran[c] = <<>>
            /\ Returned(id) => inv[id].err.kind = "circular"

\* a requested target on a cycle has returned the wrapped circular error
\* produced two calls further down, and nothing was run
TrueCycleWitness ==
    \E id \in Ids :
        /\ inv[id].parent = 0
        /\ OnCycle(inv[id].name)
        /\ Returned(id)
        /\ inv[id].err.kind = "circular"
        /\ Len(inv[id].err.via) = 2
        /\ inv[id].err.subject = inv[id].name
        /\ ran[inv[id].name] = <<>>

-----------------------------------------------------------------------------
(* C3 - Memoization *)

\* C3: for every name at most one invocation passes the admission check and
\* runs commands; no command of a name is run twice; a name that is done and
\* has a rule has had each command of the rule run exactly once; and a call
\* that finds the name done has returned success without running a command
\* or launching a dependency.
Memoization ==
    /\ \A n \in Names :
          /\ Cardinality({id \in Ids : inv[id].name = n /\ inv[id].admitted}) <= 1
          /\ Cardinality({id \in Ids : inv[id].name = n /\ inv[id].nran > 0}) <= 1
          /\ \A j, k \in 1..Len(ran[n]) : ran[n][j] = ran[n][k] => j = k
    /\ \A id \in Ids :
          (inv[id].admitted /\ executed[inv[id].name]
              /\ inv[id].target # NoTarget) =>
                 /\ SeqToSet(ran[inv[id].name])
                       = {<<inv[id].target, i>> : i \in Runnable(inv[id].target)}
                 /\ Len(ran[inv[id].name])
                       = Cardinality(Runnable(inv[id].target))
    /\ \A id \in Ids :
          (inv[id].sawExecuted /\ ~inv[id].sawProcessing) =>
              /\ Returned(id)
              /\ inv[id].err = NoErr
              /\ inv[id].nran = 0
              /\ Children(id) = {}

\* a name was requested by two different dependents and then once more by
\* the caller: the later calls found it done, its command has run once
MemoizationWitness ==
    \E a, b, c \in Ids :
        /\ inv[a].name = inv[b].name /\ inv[b].name = inv[c].name
        /\ inv[a].parent # 0 /\ inv[b].parent # 0
        /\ inv[a].parent # inv[b].parent
        /\ inv[c].parent = 0
        /\ inv[a].admitted /\ inv[a].nran > 0
        /\ inv[b].sawExecuted /\ Returned(b)
        /\ inv[c].sawExecuted /\ Returned(c)
        /\ Len(ran[inv[a].name]) = 1

-----------------------------------------------------------------------------
(* C4 - Dependencies before parent *)

\* C4: an invocation that has started a command of its target has no
\* dependency invocation that has not returned.
DepsBeforeParent ==
    \A p \in Ids :
        (inv[p].nran > 0 \/ inv[p].pc = "running") =>
            \A c \in Children(p) : Returned(c)

\* a target with two dependency branches, one of them with a dependency of
\* its own, is running a command
DepsBeforeParentWitness ==
    \E p \in Ids :
        /\ inv[p].pc = "running"
        /\ Cardinality(Children(p)) >= 2
        /\ \E c \in Children(p) : Children(c) # {}

-----------------------------------------------------------------------------
(* C5 - Dependency failure aborts the parent *)

\* C5: when a dependency invocation of an invocation of T has returned an
\* error, that invocation has run none of T's commands, T is not done, and
\* once it has returned its error is the error of one of its failed
\* dependencies wrapped with that dependency's name.
DepFailureAborts ==
    \A p \in Ids :
        (\E c \in Children(p) : Returned(c) /\ inv[c].err # NoErr) =>
            /\ inv[p].nran = 0
            /\ ~executed[inv[p].name]
            /\ inv[p].pc \notin {"cmd", "running", "lockdone", "markdone"}
            /\ Returned(p) =>
                  \E c \in Children(p) :
                      /\ inv[c].err # NoErr
                      /\ inv[p].err = DependencyErr(inv[c].name, inv[c].err)

\* a target has returned the wrapped command failure of one dependency while
\* another of its dependencies succeeded
DepFailureWitness ==
    \E p \in Ids :
        /\ Returned(p)
        /\ inv[p].err.kind = "command"
        /\ inv[p].err.via # <<>>
        /\ \E c \in Children(p) : Returned(c) /\ inv[c].err = NoErr
        /\ Targets[inv[p].target].Commands # <<>>

-----------------------------------------------------------------------------
(* C6 - Command ordering and stop at the first failure *)

\* C6: the commands run for a name are commands of one rule, in increasing
\* list position with no runnable command skipped; the command being run is
\* the last one started for its name; and when a command has failed it is the
\* last command run for that name, the invocation has returned the error
\* naming that command, and the name is not done.
CommandOrder ==
    /\ \A n \in Names :
          \A j \in 1..Len(ran[n]) :
              /\ j > 1 => /\ ran[n][j][1] = ran[n][j - 1][1]
                          /\ ran[n][j][2] > ran[n][j - 1][2]
              /\ \A k \in Runnable(ran[n][j][1]) :
                    k < ran[n][j][2] => \E h \in 1..(j - 1) : ran[n][h][2] = k
    /\ \A id \in Ids :
          inv[id].pc = "running" =>
              /\ ran[inv[id].name] # <<>>
              /\ ran[inv[id].name][Len(ran[inv[id].name])]
                    = <<inv[id].target, inv[id].i>>
    /\ \A f \in failed :
          /\ ran[f[1]] # <<>>
          /\ ran[f[1]][Len(ran[f[1]])] = <<f[2], f[3]>>
          /\ ~executed[f[1]]
          /\ \E id \in Ids :
                /\ inv[id].name = f[1]
                /\ Returned(id)
                /\ inv[id].err = CommandErr(Targets[f[2]].Commands[f[3]].Cmd)

\* the second of three commands has failed after the first succeeded
CommandOrderWitness ==
    \E f \in failed :
        /\ f[3] = 2
        /\ Len(Targets[f[2]].Commands) = 3
        /\ ran[f[1]] = << <<f[2], 1>>, <<f[2], 2>> >>
        /\ \E id \in Ids : inv[id].name = f[1] /\ inv[id].parent = 0 /\ Returned(id)

-----------------------------------------------------------------------------
(* C7 - Silent flag *)

\* C7: the commands whose text has been printed before running are exactly
\* the commands reached by the loop whose Silent flag is false: no silent
\* command is printed, every command handed to exec that is not silent is.
SilentNotEchoed ==
    \A n \in Names :
        /\ \A j \in 1..Len(echoed[n]) :
              ~Targets[echoed[n][j][1]].Commands[echoed[n][j][2]].Silent
        /\ \A j \in 1..Len(ran[n]) :
              ~Targets[ran[n][j][1]].Commands[ran[n][j][2]].Silent
                  => ran[n][j] \in SeqToSet(echoed[n])

-----------------------------------------------------------------------------
(* C8 - A circular-dependency error only for an ancestor *)

\* C8: an invocation returns the circular-dependency error for its own name
\* only when that name is the name of an invocation above it on its call path.
CircularOnlyForAncestor ==
    \A id \in Ids :
        inv[id].err = CircularErr(inv[id].name) =>
            inv[id].name \in Ancestors(id)

-----------------------------------------------------------------------------
(* C9 - Wait and reuse *)

\* C9: an invocation that found its name in progress on behalf of an
\* invocation that is not above it on its call path has returned only if the
\* invocation that was admitted for the name has returned, and with that
\* invocation's result.
WaitAndReuse ==
    \A id \in Ids :
        (/\ inv[id].sawProcessing
         /\ inv[id].name \notin Ancestors(id)
         /\ Returned(id)) =>
            \E f \in Ids :
                /\ f # id
                /\ inv[f].name = inv[id].name
                /\ inv[f].admitted
                /\ Returned(f)
                /\ inv[id].err = inv[f].err

-----------------------------------------------------------------------------
(* C10 - Existing-artifact shortcut *)

\* C10: an invocation for a name that has no explicit target and no matching
\* pattern rule but exists as a file has, once returned, returned success
\* with the name done and not in progress, no command run and no dependency
\* invocation launched.
FileShortcut ==
    \A id \in Ids :
        (/\ inv[id].name \notin DOMAIN Targets
         /\ findMatchingPatternRule(inv[id].name) = {}
         /\ inv[id].name \in files
         /\ Returned(id)) =>
            /\ inv[id].err = NoErr
            /\ executed[inv[id].name]
            /\ ~processing[inv[id].name]
            /\ inv[id].nran = 0
            /\ Children(id) = {}

-----------------------------------------------------------------------------
(* C11 - Target not found *)

\* C11: an invocation for a name that has no explicit target, no matching
\* pattern rule and no file has, once returned, returned the target-not-found
\* error for that name without running a command, and the name is in
\* progress and not done.
TargetNotFound ==
    \A id \in Ids :
        (~Resolvable(inv[id].name) /\ Returned(id)) =>
            /\ inv[id].err = NotFoundErr(inv[id].name)
            /\ inv[id].nran = 0
            /\ processing[inv[id].name]
            /\ ~executed[inv[id].name]

-----------------------------------------------------------------------------
(* C12 - Pattern fallback and resolution precedence *)

\* the runnable commands of a rule in list order, as recorded in ran
RunnableSeq(r) ==
    LET Pos == [i \in 1..Len(Targets[r].Commands) |-> i]
        Runs(i) == i \in Runnable(r)
        Sel == SelectSeq(Pos, Runs)
    IN  [j \in 1..Len(Sel) |-> <<r, Sel[j]>>]

\* C12: an invocation resolves its name to the explicit target when there is
\* one and otherwise to a pattern rule that matches it; it takes the file
\* branch only when there is neither; and an invocation that resolved its
\* name to a pattern rule launches that rule's dependencies and, when it has
\* returned success, all of them have succeeded, the rule's runnable commands
\* have run in order for the requested name, and the requested name is done.
PatternFallback ==
    \A id \in Ids :
        LET name == inv[id].name
            rule == inv[id].target
        IN
        /\ rule # NoTarget =>
              IF name \in DOMAIN Targets THEN rule = name
              ELSE rule \in findMatchingPatternRule(name)
        /\ (inv[id].pc \in {"lockfile", "markfile"}
               \/ (inv[id].admitted /\ Returned(id) /\ inv[id].err = NoErr
                      /\ rule = NoTarget)) =>
              /\ name \notin DOMAIN Targets
              /\ findMatchingPatternRule(name) = {}
              /\ name \in files
        /\ (rule # NoTarget /\ name \notin DOMAIN Targets) =>
              /\ \A j \in 1..Len(ran[name]) : ran[name][j][1] = rule
              /\ inv[id].pc \notin {"resolve", "spawn"} =>
                    /\ Cardinality(Children(id)) = Len(Targets[rule].Dependencies)
                    /\ \A d \in SeqToSet(Targets[rule].Dependencies) :
                          \E c \in Children(id) : inv[c].name = d
              /\ (Returned(id) /\ inv[id].err = NoErr) =>
                    /\ \A c \in Children(id) : Returned(c) /\ inv[c].err = NoErr
                    /\ ran[name] = RunnableSeq(rule)
                    /\ executed[name]

\* x.o, which has no explicit rule, has been built by the rule %.o after the
\* rule's dependency, and yo, which exists as a file, was resolved to the
\* same rule rather than to the file
PatternFallbackWitness ==
    /\ \E id \in Ids :
          /\ inv[id].name = "x.o"
          /\ inv[id].target = "%.o"
          /\ Returned(id)
          /\ inv[id].err = NoErr
          /\ ran["x.o"] = << <<"%.o", 1>> >>
          /\ executed["x.o"]
          /\ \E c \in Children(id) : inv[c].name = "s"
    /\ \E id \in Ids :
          /\ inv[id].name = "yo"
          /\ "yo" \in files
          /\ inv[id].target = "%.o"

-----------------------------------------------------------------------------
(* C13 - Lifecycle invariant *)

\* no name is both in progress and done, and a name whose admitted
\* invocation has returned an error is in progress and not done
LifecycleState ==
    /\ \A n \in Names : ~(processing[n] /\ executed[n])
    /\ \A id \in Ids :
          (inv[id].admitted /\ Returned(id) /\ inv[id].err # NoErr) =>
              processing[inv[id].name] /\ ~executed[inv[id].name]

\* done is never undone; in progress is left only in the step that marks the
\* name done; in progress is entered only by a name that is neither in
\* progress nor done, in a step that admits an invocation for it
LifecycleStep ==
    \A n \in Names :
        /\ executed[n] => executed'[n]
        /\ (processing[n] /\ ~processing'[n]) => (~executed[n] /\ executed'[n])
        /\ (~executed[n] /\ executed'[n]) => (processing[n] /\ ~processing'[n])
        /\ (~processing[n] /\ processing'[n]) =>
              /\ ~executed[n]
              /\ \E id \in Ids :
                    /\ inv[id].name = n
                    /\ ~inv[id].admitted
                    /\ inv'[id].admitted

\* C13: processing[name] and executed[name] are never both true, executed
\* never goes back to false, processing goes from true to false only in the
\* step that sets executed, so each name goes unstarted -> in progress ->
\* done at most once and a name whose execution failed stays in progress.
Lifecycle == []LifecycleState /\ [][LifecycleStep]_vars

\* one name is done after having been in progress while another, whose
\* command failed, is still in progress after its invocation has returned
LifecycleWitness ==
    \E a, b \in Ids :
        /\ inv[a].admitted /\ Returned(a) /\ inv[a].err = NoErr
        /\ executed[inv[a].name] /\ ~processing[inv[a].name]
        /\ inv[b].admitted /\ Returned(b) /\ inv[b].err.kind = "command"
        /\ inv[b].err.via = <<>>
        /\ processing[inv[b].name] /\ ~executed[inv[b].name]

-----------------------------------------------------------------------------
(* C14 - No cancellation *)

\* C14: an invocation that has launched dependency branches has returned
\* only if every one of its branches has returned and its goroutine has
\* finished, each branch that returned success having run to the point where
\* its name is done whatever its siblings returned; while it waits, its
\* counter is the number of branches still running; and when a branch has
\* failed the error returned is the error reported by one of the branches.
NoCancellation ==
    \A p \in Ids :
        /\ Returned(p) =>
              /\ \A c \in Children(p) :
                    /\ inv[c].pc = "exited"
                    /\ inv[c].err = NoErr => executed[inv[c].name]
              /\ inv[p].wg = 0
              /\ (\E c \in Children(p) : inv[c].err # NoErr) =>
                    \E c \in Children(p) :
                        /\ inv[c].err # NoErr
                        /\ inv[p].err = DependencyErr(inv[c].name, inv[c].err)
        /\ inv[p].pc = "wait" =>
              /\ inv[p].wg = Cardinality({c \in Children(p) : inv[c].pc # "exited"})
              /\ Len(inv[p].errChan)
                    = Cardinality({c \in Children(p) :
                                      inv[c].pc = "exited" /\ inv[c].err # NoErr})

\* a target has returned the failure of one branch after another of its
\* branches, with a dependency of its own, ran its command to the end
NoCancellationWitness ==
    \E p \in Ids :
        /\ Returned(p)
        /\ inv[p].err # NoErr
        /\ \E c, d \in Children(p) :
              /\ inv[c].err # NoErr
              /\ inv[d].err = NoErr
              /\ inv[d].nran > 0
              /\ Children(d) # {}

-----------------------------------------------------------------------------
(* C15 - The mutex is held only around the state maps *)

\* C15: the mutex is held only by an invocation inside one of the three
\* critical sections on processing and executed; an invocation that is
\* resolving its name (the os.Stat check included), launching or waiting for
\* its dependency branches, printing or running a command, or that has
\* returned, does not hold it.
MutexOnlyAroundMaps ==
    /\ mutex # 0 =>
          /\ mutex \in Ids
          /\ inv[mutex].pc \in {"admit", "markfile", "markdone"}
    /\ \A id \in Ids :
          inv[id].pc \in {"resolve", "spawn", "wait", "cmd", "running",
                          "returned", "exited"} => mutex # id

\* while one invocation is running a command, an invocation for another
\* name that is neither above nor below it has taken the mutex and is at
\* its admission check
MutexWitness ==
    \E a, b \in Ids :
        /\ inv[a].pc = "running"
        /\ mutex = b
        /\ inv[b].pc = "admit"
        /\ inv[a].name # inv[b].name
        /\ inv[a].name \notin Ancestors(b)
        /\ inv[b].name \notin Ancestors(a)

-----------------------------------------------------------------------------
(* C16 - Pattern matching *)

\* name is from, then some middle, then to, character by character
SplitsAs(from, to, name) ==
    /\ Len(from) + Len(to) <= Len(name)
    /\ SubSeq(name, 1, Len(from)) = from
    /\ SubSeq(name, Len(name) - Len(to) + 1, Len(name)) = to

\* C16: a name without an explicit target is resolved to a pattern target
\* only if the name is the target's prefix, some possibly empty middle, and
\* the target's suffix, compared literally; when no pattern target splits the
\* name this way the matcher returns none.
LiteralPatternMatch ==
    \A id \in Ids :
        (inv[id].name \notin DOMAIN Targets /\ inv[id].target # NoTarget) =>
            SplitsAs(Targets[inv[id].target].PatternFrom,
                     Targets[inv[id].target].PatternTo, inv[id].name)

-----------------------------------------------------------------------------
(* C17 - Deterministic pattern choice *)

\* C17: the pattern target an invocation resolved its name to is the only
\* one findMatchingPatternRule can return for that name on this graph, so
\* that every call for the name returns the same rule.
DeterministicChoice ==
    \A id \in Ids :
        (inv[id].name \notin DOMAIN Targets /\ inv[id].target # NoTarget) =>
            findMatchingPatternRule(inv[id].name) = {inv[id].target}

-----------------------------------------------------------------------------
(* C19 - Termination without deadlock *)

\* every call of the caller has returned and every dependency goroutine has
\* finished
AllReturned ==
    \A id \in Ids :
        IF inv[id].parent = 0 THEN inv[id].pc = "returned"
        ELSE inv[id].pc = "exited"

\* a dependency goroutine that has an error to report finds room in its
\* parent's error channel
SendNeverBlocks ==
    \A id \in Ids :
        /\ inv[id].target # NoTarget => Len(inv[id].errChan) <= ErrChanCap(id)
        /\ (inv[id].parent # 0 /\ inv[id].pc = "returned"
               /\ inv[id].err # NoErr) =>
              Len(inv[inv[id].parent].errChan) < ErrChanCap(inv[id].parent)

\* C19: under fair scheduling, whenever some invocation has not returned,
\* eventually every invocation has returned and every dependency goroutine
\* has finished; and a goroutine never finds its parent's error channel full.
Termination == []SendNeverBlocks /\ (~AllReturned ~> AllReturned)

\* everything has returned on a graph with a cycle, after an invocation with
\* two dependencies received an error from each of them
TerminationWitness ==
    /\ AllReturned
    /\ \E p \in Ids :
          /\ Len(inv[p].errChan) = 2
          /\ ErrChanCap(p) = 2
    /\ \E id \in Ids : OnCycle(inv[id].name) /\ inv[id].parent = 0

-----------------------------------------------------------------------------
(* C20 - Done implies dependencies done *)

\* the rule the admitted invocation of a name resolved the name to, if any
ChosenRules(n) ==
    {inv[id].target : id \in {i \in Ids : inv[i].name = n /\ inv[i].admitted
                                             /\ inv[i].target # NoTarget}}

\* the dependencies of the rule a name was resolved to
ChosenDeps(n) == UNION {SeqToSet(Targets[r].Dependencies) : r \in ChosenRules(n)}

RECURSIVE ChosenReachIn(_, _)
\* the names reached from the set S in at most k such dependency steps
ChosenReachIn(S, k) ==
    IF k = 0 THEN S
    ELSE ChosenReachIn(S \cup UNION {ChosenDeps(n) : n \in S}, k - 1)

\* a name and its transitive dependencies
Closure(n) == ChosenReachIn({n}, Cardinality(Names))

\* C20: an invocation has returned success only if its name is done; when a
\* name resolved to a rule is done, every dependency of that rule is done;
\* and when a call of the caller has returned success, every name of the
\* transitive dependency closure of its name is done and none is in progress.
DoneImpliesDepsDone ==
    /\ \A id \in Ids :
          (Returned(id) /\ inv[id].err = NoErr) => executed[inv[id].name]
    /\ \A n \in Names :
          executed[n] => \A d \in ChosenDeps(n) : executed[d]
    /\ \A id \in Ids :
          (inv[id].parent = 0 /\ Returned(id) /\ inv[id].err = NoErr) =>
              \A d \in Closure(inv[id].name) : executed[d] /\ ~processing[d]

\* a call of the caller has returned success for a target with two levels of
\* dependencies below it
DoneWitness ==
    \E id \in Ids :
        /\ inv[id].parent = 0
        /\ Returned(id)
        /\ inv[id].err = NoErr
        /\ Cardinality(Closure(inv[id].name)) >= 4
        /\ \E c \in Children(id) : Children(c) # {}

-----------------------------------------------------------------------------
(* C18 - Parser line classification *)

\* what the parser did with the line it has just read, when the line is
\* neither blank nor a comment: a line that begins with a tab added one
\* command to the current target and defined no variable; a line without a
\* leading tab that contains ":" (with at most one "%" in the name) made the
\* name before the colon a key of Targets and the current target, and defined
\* no variable; and a variable was defined only by a line without a leading
\* tab that contains "=" and no ":".
ClassifiedAsClaimed ==
    LET line == lines'[Len(lines')] IN
    (Len(lines') = Len(lines) + 1 /\ ~Skipped(line)) =>
        /\ (HasPrefix(line, "\t") /\ ~currentTarget.nil) =>
              /\ ~currentTarget'.nil
              /\ Len(currentTarget'.obj.Commands)
                    = Len(currentTarget.obj.Commands) + 1
              /\ \A k \in currentTarget.keys : Targets'[k] = currentTarget'.obj
              /\ Variables' = Variables
        /\ (/\ ~HasPrefix(line, "\t")
            /\ Contains(line, ":")
            /\ CountOf(TrimSpace(SplitN2(line, ":")[1]), "%") <= 1) =>
              /\ TrimSpace(SplitN2(line, ":")[1]) \in DOMAIN Targets'
              /\ ~currentTarget'.nil
              /\ TrimSpace(SplitN2(line, ":")[1]) \in currentTarget'.keys
              /\ Variables' = Variables
        /\ Variables' # Variables =>
              /\ ~HasPrefix(line, "\t")
              /\ Contains(line, "=")
              /\ ~Contains(line, ":")

\* C18: every non-blank, non-comment line that begins with a tab is appended
\* as a command to the most recently defined target, also when it contains
\* "="; a line without a leading tab that contains ":" defines a target, also
\* when its dependency field contains "="; a line defines a variable only if
\* it has no leading tab, contains "=" and is not a target line.
ParserClassification == [][ClassifiedAsClaimed]_vars

====
